---- MODULE Spec2Model ----
(***************************************************************************)
(* A model of marshmallow's utility functions (src/marshmallow/utils.py):  *)
(* set_value on a shared dictionary, run by one caller or by two           *)
(* interleaved callers; the ISO8601 parsers from_iso_datetime and          *)
(* from_iso_time with isoformat; get_value; get_func_args.                 *)
(*                                                                         *)
(* Strings are sequences of one-character strings, so that splitting,      *)
(* matching, padding and formatting are computed character by character.   *)
(***************************************************************************)
EXTENDS Integers, Sequences, FiniteSets, TLC

VARIABLES
    heap,       \* the dict objects: heap[id] is a function from keys to values
    heap0,      \* the heap as it was before any call started
    callers,    \* the threads that call set_value on the container
    pc,         \* per thread: the line of set_value it is about to run
    key,        \* per thread: the key argument
    val,        \* per thread: the value argument
    parts,      \* per thread: key.split('.')
    idx,        \* per thread: the loop index i (1-based)
    dct,        \* per thread: the local name dct, the value it is bound to
    err,        \* per thread: the exception raised, if any
    isoArg,     \* the string given to from_iso_datetime or from_iso_time
    given,      \* the pieces isoArg was written from
    parsed,     \* what the parser returned or raised
    formatted,  \* isoformat of the parsed datetime
    isoPc,      \* "input", then the parser that ran, then "formatted"
    gvArgs,     \* get_value's arguments obj, key, default
    gvResult,   \* what get_value returned or raised
    func,       \* get_func_args' argument
    faResult    \* the list get_func_args returned

setVars == <<heap, heap0, callers, pc, key, val, parts, idx, dct, err>>

isoVars == <<isoArg, given, parsed, formatted, isoPc>>

gvVars == <<gvArgs, gvResult>>

faVars == <<func, faResult>>

vars == <<setVars, isoVars, gvVars, faVars>>

(***************************************************************************)
(* Bounds                                                                  *)
(***************************************************************************)
\* the longest dotted path, in segments
MaxSegs == 3

Threads == {1, 2}

(***************************************************************************)
(* Strings                                                                 *)
(***************************************************************************)
Dot == "."

\* '.' in key
HasDot(s) == \E i \in 1..Len(s) : s[i] = Dot

\* s.find(c) for a c that occurs in s, 1-based
Find(s, c) == CHOOSE i \in 1..Len(s) : s[i] = c /\ \A j \in 1..(i-1) : s[j] # c

RECURSIVE SplitOn(_, _)
\* s.split(c)
SplitOn(s, c) ==
    IF \A i \in 1..Len(s) : s[i] # c THEN <<s>>
    ELSE <<SubSeq(s, 1, Find(s, c) - 1)>> \o SplitOn(SubSeq(s, Find(s, c) + 1, Len(s)), c)

\* key.split('.')
Split(s) == SplitOn(s, Dot)

RECURSIVE Join(_)
\* '.'.join(ps)
Join(ps) ==
    IF Len(ps) = 0 THEN <<>>
    ELSE IF Len(ps) = 1 THEN ps[1]
    ELSE ps[1] \o <<Dot>> \o Join(Tail(ps))

(***************************************************************************)
(* Values and dictionaries                                                 *)
(***************************************************************************)
IntV(n) == [kind |-> "int", v |-> n]
DictV(id) == [kind |-> "dict", v |-> id]

EmptyDict == [k \in {} |-> IntV(0)]

\* d[k] = v
Put(d, k, v) == [x \in (DOMAIN d) \cup {k} |-> IF x = k THEN v ELSE d[x]]

\* the caller's dictionary
Root == 1

A == <<"a">>
B == <<"b">>

Segs == {A, B}

RECURSIVE SegSeqs(_)
SegSeqs(n) ==
    IF n = 0 THEN {<<>>}
    ELSE {<<s>> \o r : s \in Segs, r \in SegSeqs(n - 1)}

\* further keys: '', '.', 'a..b' (empty segments) and 'a.b.c'
EdgeKeys == {<<>>, <<Dot>>, <<"a", Dot, Dot, "b">>, <<"a", Dot, "b", Dot, "c">>}

\* the keys given to set_value: one to MaxSegs segments joined by '.'
KeySet == {Join(ps) : ps \in UNION {SegSeqs(n) : n \in 1..MaxSegs}} \cup EdgeKeys

\* the value a caller passes; set_value never looks inside it
ValOf(t) == IntV(6 + t)

One(k, v) == Put(EmptyDict, k, v)

\* the dictionaries a caller may hand in
InitHeaps ==
    { <<EmptyDict>>,
      <<One(A, IntV(1))>>,
      <<One(A, DictV(2)), EmptyDict>>,
      <<One(A, DictV(2)), One(B, IntV(1))>>,
      <<Put(One(A, DictV(2)), B, IntV(1)), One(A, DictV(3)), EmptyDict>>,
      <<One(A, DictV(2)), One(B, DictV(3)), One(A, IntV(1))>>,
      <<One(<<>>, DictV(2)), One(<<>>, IntV(1))>> }

(***************************************************************************)
(* set_value(dct, key, value), one step per line.  A thread switch can     *)
(* happen between any two steps; each step reads or writes the shared      *)
(* dictionary at most once.                                                *)
(***************************************************************************)
NoErr == [exc |-> "none", at |-> <<>>]

\* ValueError("String path conflicts with current dictionary structure at " + at)
ValueErr(at) == [exc |-> "ValueError", at |-> at]

\* what Python raises when a non-dict is tested with `in` or stored into
TypeErr == [exc |-> "TypeError", at |-> <<>>]

part(t) == parts[t][idx[t]]

Call(t) ==
    /\ t \in callers
    /\ pc[t] = "idle"
    /\ \E k \in KeySet : key' = [key EXCEPT ![t] = k]
    /\ val' = [val EXCEPT ![t] = ValOf(t)]
    /\ dct' = [dct EXCEPT ![t] = DictV(Root)]
    /\ pc' = [pc EXCEPT ![t] = "L223"]
    /\ UNCHANGED <<heap, heap0, callers, parts, idx, err>>
    /\ UNCHANGED <<isoVars, gvVars, faVars>>

\* if '.' not in key: dct[key] = value; return
\* parts = key.split('.')
TestDot(t) ==
    /\ pc[t] = "L223"
    /\ IF ~HasDot(key[t])
       THEN /\ heap' = [heap EXCEPT ![dct[t].v] = Put(@, key[t], val[t])]
            /\ pc' = [pc EXCEPT ![t] = "done"]
            /\ UNCHANGED <<parts, idx>>
       ELSE /\ parts' = [parts EXCEPT ![t] = Split(key[t])]
            /\ idx' = [idx EXCEPT ![t] = 1]
            /\ pc' = [pc EXCEPT ![t] = "L228"]
            /\ UNCHANGED heap
    /\ UNCHANGED <<heap0, callers, key, val, dct, err>>
    /\ UNCHANGED <<isoVars, gvVars, faVars>>

\* for i, part in enumerate(parts[:-1])
LoopHead(t) ==
    /\ pc[t] = "L228"
    /\ pc' = [pc EXCEPT ![t] = IF idx[t] <= Len(parts[t]) - 1 THEN "L229" ELSE "L238"]
    /\ UNCHANGED <<heap, heap0, callers, key, val, parts, idx, dct, err>>
    /\ UNCHANGED <<isoVars, gvVars, faVars>>

\* Check with the membership test lost: every segment is created anew
CheckAlwaysMissing(t) ==
    /\ pc[t] = "L229"
    /\ IF dct[t].kind # "dict"
       THEN /\ err' = [err EXCEPT ![t] = TypeErr]
            /\ pc' = [pc EXCEPT ![t] = "raised"]
       ELSE /\ pc' = [pc EXCEPT ![t] = "L230"]
            /\ UNCHANGED err
    /\ UNCHANGED <<heap, heap0, callers, key, val, parts, idx, dct>>
    /\ UNCHANGED <<isoVars, gvVars, faVars>>

\* if part not in dct
Check(t) ==
    /\ pc[t] = "L229"
    /\ IF dct[t].kind # "dict"
       THEN /\ err' = [err EXCEPT ![t] = TypeErr]
            /\ pc' = [pc EXCEPT ![t] = "raised"]
       ELSE /\ pc' = [pc EXCEPT ![t] =
                        IF part(t) \notin DOMAIN heap[dct[t].v] THEN "L230" ELSE "L232"]
            /\ UNCHANGED err
    /\ UNCHANGED <<heap, heap0, callers, key, val, parts, idx, dct>>
    /\ UNCHANGED <<isoVars, gvVars, faVars>>

\* dct[part] = {}
Create(t) ==
    /\ pc[t] = "L230"
    /\ heap' = Append([heap EXCEPT ![dct[t].v] = Put(@, part(t), DictV(Len(heap) + 1))],
                      EmptyDict)
    /\ pc' = [pc EXCEPT ![t] = "L236"]
    /\ UNCHANGED <<heap0, callers, key, val, parts, idx, dct, err>>
    /\ UNCHANGED <<isoVars, gvVars, faVars>>

\* IsDict whose message joins parts[:i], one segment short
IsDictShortPrefix(t) ==
    /\ pc[t] = "L232"
    /\ IF heap[dct[t].v][part(t)].kind # "dict"
       THEN /\ err' = [err EXCEPT ![t] = ValueErr(Join(SubSeq(parts[t], 1, idx[t] - 1)))]
            /\ pc' = [pc EXCEPT ![t] = "raised"]
       ELSE /\ pc' = [pc EXCEPT ![t] = "L236"]
            /\ UNCHANGED err
    /\ UNCHANGED <<heap, heap0, callers, key, val, parts, idx, dct>>
    /\ UNCHANGED <<isoVars, gvVars, faVars>>

\* if not isinstance(dct[part], dict): raise ValueError(... '.'.join(parts[:i+1]))
IsDict(t) ==
    /\ pc[t] = "L232"
    /\ IF heap[dct[t].v][part(t)].kind # "dict"
       THEN /\ err' = [err EXCEPT ![t] = ValueErr(Join(SubSeq(parts[t], 1, idx[t])))]
            /\ pc' = [pc EXCEPT ![t] = "raised"]
       ELSE /\ pc' = [pc EXCEPT ![t] = "L236"]
            /\ UNCHANGED err
    /\ UNCHANGED <<heap, heap0, callers, key, val, parts, idx, dct>>
    /\ UNCHANGED <<isoVars, gvVars, faVars>>

\* Descend that leaves dct where it was
DescendStay(t) ==
    /\ pc[t] = "L236"
    /\ idx' = [idx EXCEPT ![t] = @ + 1]
    /\ pc' = [pc EXCEPT ![t] = "L228"]
    /\ UNCHANGED <<heap, heap0, callers, key, val, parts, dct, err>>
    /\ UNCHANGED <<isoVars, gvVars, faVars>>

\* dct = dct[part]
Descend(t) ==
    /\ pc[t] = "L236"
    /\ dct' = [dct EXCEPT ![t] = heap[dct[t].v][part(t)]]
    /\ idx' = [idx EXCEPT ![t] = @ + 1]
    /\ pc' = [pc EXCEPT ![t] = "L228"]
    /\ UNCHANGED <<heap, heap0, callers, key, val, parts, err>>
    /\ UNCHANGED <<isoVars, gvVars, faVars>>

\* FinalStore that writes into the caller's dictionary instead of the innermost one
FinalStoreAtRoot(t) ==
    /\ pc[t] = "L238"
    /\ heap' = [heap EXCEPT ![Root] = Put(@, parts[t][Len(parts[t])], val[t])]
    /\ pc' = [pc EXCEPT ![t] = "done"]
    /\ UNCHANGED <<heap0, callers, key, val, parts, idx, dct, err>>
    /\ UNCHANGED <<isoVars, gvVars, faVars>>

\* dct[parts[-1]] = value
FinalStore(t) ==
    /\ pc[t] = "L238"
    /\ IF dct[t].kind # "dict"
       THEN /\ err' = [err EXCEPT ![t] = TypeErr]
            /\ pc' = [pc EXCEPT ![t] = "raised"]
            /\ UNCHANGED heap
       ELSE /\ heap' = [heap EXCEPT ![dct[t].v] = Put(@, parts[t][Len(parts[t])], val[t])]
            /\ pc' = [pc EXCEPT ![t] = "done"]
            /\ UNCHANGED err
    /\ UNCHANGED <<heap0, callers, key, val, parts, idx, dct>>
    /\ UNCHANGED <<isoVars, gvVars, faVars>>

set_value(t) ==
    \/ Call(t)
    \/ TestDot(t)
    \/ LoopHead(t)
    \/ Check(t)
    \/ Create(t)
    \/ IsDict(t)
    \/ Descend(t)
    \/ FinalStore(t)

(***************************************************************************)
(* Characters and numbers                                                  *)
(***************************************************************************)
Digits == <<"0", "1", "2", "3", "4", "5", "6", "7", "8", "9">>

IsDigit(c) == \E i \in 1..Len(Digits) : Digits[i] = c

DigitVal(c) == (CHOOSE i \in 1..Len(Digits) : Digits[i] = c) - 1

\* s[p], or "" past either end of s
CharAt(s, p) == IF p \in 1..Len(s) THEN s[p] ELSE ""

RECURSIVE ToInt(_)
\* int(s) of a string of decimal digits
ToInt(s) ==
    IF Len(s) = 0 THEN 0
    ELSE ToInt(SubSeq(s, 1, Len(s) - 1)) * 10 + DigitVal(s[Len(s)])

RECURSIVE Pow10(_)
Pow10(k) == IF k = 0 THEN 1 ELSE 10 * Pow10(k - 1)

\* '%0wd' % n, for 0 <= n < 10**w
ToStr(n, w) == [i \in 1..w |-> Digits[((n \div Pow10(w - i)) % 10) + 1]]

\* s.ljust(w, c)
LJust(s, w, c) == s \o [i \in 1..(IF w > Len(s) THEN w - Len(s) ELSE 0) |-> c]

RECURSIVE CountDigits(_, _, _)
\* how many of the characters of s from p on a greedy \d{..,max} takes
CountDigits(s, p, max) ==
    IF max = 0 \/ ~IsDigit(CharAt(s, p)) THEN 0
    ELSE 1 + CountDigits(s, p + 1, max - 1)

(***************************************************************************)
(* The regular expressions.  Every repetition is greedy; a shorter         *)
(* repetition never helps, because what follows each \d{..} in the         *)
(* patterns cannot start with a digit, so the greedy match is the match    *)
(* the regex engine reports, or there is none.                             *)
(***************************************************************************)
\* (?P<microsecond>\d{1,6})
MicroDigits == 6

\* \d{0,6}
ExtraDigits == 6

NoMatch == [ok |-> FALSE, hour |-> <<>>, minute |-> <<>>, second |-> <<>>,
            microsecond |-> <<>>, end |-> 0]

\* (?P<hour>\d{1,2}):(?P<minute>\d{1,2})
\*   (?::(?P<second>\d{1,2})(?:\.(?P<microsecond>\d{1,6})\d{0,6})?)?
\* matched from position p; a group that took no part is <<>>; end is the
\* position after the match.
MatchTime(s, p) ==
    LET h == CountDigits(s, p, 2)
        pm == p + h + 1
        m == CountDigits(s, pm, 2)
        ps == pm + m
        sd == IF CharAt(s, ps) = ":" THEN CountDigits(s, ps + 1, 2) ELSE 0
        pf == ps + 1 + sd
        fd == IF sd > 0 /\ CharAt(s, pf) = "." THEN CountDigits(s, pf + 1, MicroDigits) ELSE 0
        xd == IF fd > 0 THEN CountDigits(s, pf + 1 + fd, ExtraDigits) ELSE 0
    IN  IF h = 0 \/ CharAt(s, p + h) # ":" \/ m = 0 THEN NoMatch
        ELSE [ok |-> TRUE,
              hour |-> SubSeq(s, p, p + h - 1),
              minute |-> SubSeq(s, pm, pm + m - 1),
              second |-> SubSeq(s, ps + 1, ps + sd),
              microsecond |-> SubSeq(s, pf + 1, pf + fd),
              end |-> IF sd = 0 THEN ps ELSE IF fd = 0 THEN pf ELSE pf + 1 + fd + xd]

\* (?P<tzinfo>Z|[+-]\d{2}(?::?\d{2})?)? at position p: the text it takes
MatchTz(s, p) ==
    IF CharAt(s, p) = "Z" THEN <<"Z">>
    ELSE IF CharAt(s, p) \in {"+", "-"} /\ CountDigits(s, p + 1, 2) = 2
    THEN IF CharAt(s, p + 3) = ":" /\ CountDigits(s, p + 4, 2) = 2 THEN SubSeq(s, p, p + 5)
         ELSE IF CountDigits(s, p + 3, 2) = 2 THEN SubSeq(s, p, p + 4)
         ELSE SubSeq(s, p, p + 2)
    ELSE <<>>

\* $ : at the end of the string, or before a newline that ends it
AtEnd(s, p) == p = Len(s) + 1 \/ (p = Len(s) /\ s[p] = "\n")

NoDateMatch == [ok |-> FALSE, year |-> <<>>, month |-> <<>>, day |-> <<>>,
                time |-> NoMatch, tzinfo |-> <<>>]

\* _iso8601_datetime_re.match(s)
MatchDatetime(s) ==
    LET mo == CountDigits(s, 6, 2)
        pd == 6 + mo + 1
        d == CountDigits(s, pd, 2)
        pt == pd + d
        t == MatchTime(s, pt + 1)
        tz == MatchTz(s, t.end)
    IN  IF /\ CountDigits(s, 1, 4) = 4
           /\ CharAt(s, 5) = "-"
           /\ mo >= 1
           /\ CharAt(s, 6 + mo) = "-"
           /\ d >= 1
           /\ CharAt(s, pt) \in {"T", " "}
           /\ t.ok
           /\ AtEnd(s, t.end + Len(tz))
        THEN [ok |-> TRUE, year |-> SubSeq(s, 1, 4), month |-> SubSeq(s, 6, 5 + mo),
              day |-> SubSeq(s, pd, pd + d - 1), time |-> t, tzinfo |-> tz]
        ELSE NoDateMatch

(***************************************************************************)
(* datetime values                                                         *)
(***************************************************************************)
\* a datetime.datetime or datetime.time, or the ValueError raised instead
DateTime(y, mo, d, h, mi, s, us, aware, off) ==
    [exc |-> "none", why |-> "", year |-> y, month |-> mo, day |-> d, hour |-> h,
     minute |-> mi, second |-> s, microsecond |-> us, aware |-> aware, offset |-> off]

ValueError(why) ==
    [exc |-> "ValueError", why |-> why, year |-> 0, month |-> 0, day |-> 0, hour |-> 0,
     minute |-> 0, second |-> 0, microsecond |-> 0, aware |-> FALSE, offset |-> 0]

NotParsed ==
    [exc |-> "unset", why |-> "", year |-> 0, month |-> 0, day |-> 0, hour |-> 0,
     minute |-> 0, second |-> 0, microsecond |-> 0, aware |-> FALSE, offset |-> 0]

IsLeap(y) == y % 4 = 0 /\ (y % 100 # 0 \/ y % 400 = 0)

DaysInMonth(y, mo) ==
    IF mo = 2 THEN (IF IsLeap(y) THEN 29 ELSE 28)
    ELSE IF mo \in {4, 6, 9, 11} THEN 30 ELSE 31

\* the range checks of dt.time(...)
TimeFieldsOk(h, mi, s, us) ==
    /\ h \in 0..23
    /\ mi \in 0..59
    /\ s \in 0..59
    /\ us \in 0..999999

\* the range checks of dt.datetime(...)
DateFieldsOk(y, mo, d) ==
    /\ y \in 1..9999
    /\ mo \in 1..12
    /\ d \in 1..DaysInMonth(y, mo)

\* dt.timezone(dt.timedelta(seconds=offset)): the offset must lie strictly
\* between -24 h and 24 h, else ValueError
get_fixed_timezone(offset) ==
    IF -86400 < offset /\ offset < 86400
    THEN [exc |-> "none", seconds |-> offset]
    ELSE [exc |-> "ValueError", seconds |-> 0]

\* int(groups['second']) if groups['second'] else 0
SecondOf(g) == IF Len(g) > 0 THEN ToInt(g) ELSE 0

\* MicrosecondOf without the ljust
MicrosecondUnpadded(g) == IF Len(g) > 0 THEN ToInt(g) ELSE 0

\* int(groups['microsecond'].ljust(6, '0')) if groups['microsecond'] else 0
MicrosecondOf(g) == IF Len(g) > 0 THEN ToInt(LJust(g, 6, "0")) ELSE 0

\* TzOffsetMins that drops the sign
TzOffsetMinsUnsigned(tz) ==
    IF \E i \in 1..Len(tz) : tz[i] = ":"
    THEN LET hm == SplitOn(SubSeq(tz, 2, Len(tz)), ":")
         IN ToInt(hm[1]) * 60 + ToInt(hm[2])
    ELSE ToInt(SubSeq(tz, 2, Len(tz))) * 60

\* offset_mins for a designator other than 'Z'
TzOffsetMins(tz) ==
    LET mins == IF \E i \in 1..Len(tz) : tz[i] = ":"
                THEN LET hm == SplitOn(SubSeq(tz, 2, Len(tz)), ":")
                     IN ToInt(hm[1]) * 60 + ToInt(hm[2])
                ELSE ToInt(SubSeq(tz, 2, Len(tz))) * 60
    IN  IF tz[1] = "-" THEN -mins ELSE mins

from_iso_datetime(value) ==
    LET m == MatchDatetime(value)
        aware == Len(m.tzinfo) > 0
        tzinfo == IF ~aware \/ m.tzinfo = <<"Z">>
                  THEN [exc |-> "none", seconds |-> 0]
                  ELSE get_fixed_timezone(TzOffsetMins(m.tzinfo) * 60)
        y == ToInt(m.year)
        mo == ToInt(m.month)
        d == ToInt(m.day)
        h == ToInt(m.time.hour)
        mi == ToInt(m.time.minute)
        s == SecondOf(m.time.second)
        us == MicrosecondOf(m.time.microsecond)
    IN  IF ~m.ok THEN ValueError("Not a valid ISO8601-formatted datetime string")
        ELSE IF tzinfo.exc # "none" THEN ValueError("offset")
        ELSE IF ~(DateFieldsOk(y, mo, d) /\ TimeFieldsOk(h, mi, s, us)) THEN ValueError("range")
        ELSE DateTime(y, mo, d, h, mi, s, us, aware, tzinfo.seconds)

from_iso_time(value) ==
    LET m == MatchTime(value, 1)
        h == ToInt(m.hour)
        mi == ToInt(m.minute)
        s == SecondOf(m.second)
        us == MicrosecondOf(m.microsecond)
    IN  IF ~m.ok THEN ValueError("Not a valid ISO8601-formatted time string")
        ELSE IF ~TimeFieldsOk(h, mi, s, us) THEN ValueError("range")
        ELSE DateTime(0, 0, 0, h, mi, s, us, FALSE, 0)

Abs(n) == IF n < 0 THEN -n ELSE n

\* the offset suffix datetime.isoformat() writes: +HH:MM, with :SS when the
\* offset has seconds
FormatOffset(off) ==
    LET a == Abs(off)
    IN  <<IF off < 0 THEN "-" ELSE "+">> \o ToStr(a \div 3600, 2) \o <<":">>
        \o ToStr((a % 3600) \div 60, 2)
        \o (IF a % 60 # 0 THEN <<":">> \o ToStr(a % 60, 2) ELSE <<>>)

\* datetime.isoformat(): the fraction is written only when microsecond is not 0
isoformat(d) ==
    ToStr(d.year, 4) \o <<"-">> \o ToStr(d.month, 2) \o <<"-">> \o ToStr(d.day, 2)
    \o <<"T">> \o ToStr(d.hour, 2) \o <<":">> \o ToStr(d.minute, 2)
    \o <<":">> \o ToStr(d.second, 2)
    \o (IF d.microsecond # 0 THEN <<".">> \o ToStr(d.microsecond, 6) ELSE <<>>)
    \o (IF d.aware THEN FormatOffset(d.offset) ELSE <<>>)

(***************************************************************************)
(* The strings given to the parsers                                        *)
(***************************************************************************)
\* the longest fractional part, in digits
MaxFrac == 13

Dates == {<<"2", "0", "2", "4", "-", "0", "1", "-", "1", "5">>, <<"2", "0", "2", "4", "-", "0", "2", "-", "2", "9">>, <<"2", "0", "2", "3", "-", "0", "2", "-", "2", "9">>, <<"2", "0", "2", "4", "-", "2", "-", "9">>, <<"0", "0", "0", "1", "-", "1", "2", "-", "3", "1">>}

Seps == {<<"T">>, <<" ">>}

HMs == {<<"1", "0", ":", "3", "0">>, <<"2", "3", ":", "5", "9">>, <<"7", ":", "5">>}

Secs == {<<":", "0", "0">>, <<":", "5", "9">>, <<":", "7">>}

\* the i-th of n fractional digits: 1234567890123.., 000..0 or 000..1
FracDigit(pat, i, n) ==
    IF pat = "count" THEN Digits[(i % 10) + 1]
    ELSE IF pat = "low" /\ i = n THEN "1"
    ELSE "0"

Frac(pat, n) == <<".">> \o [i \in 1..n |-> FracDigit(pat, i, n)]

Fracs == {Frac(pat, n) : pat \in {"count", "zero", "low"}, n \in 1..MaxFrac}

Tzs == {<<>>, <<"Z">>, <<"+", "0", "5", ":", "3", "0">>, <<"+", "0", "5", "3", "0">>, <<"+", "0", "5">>, <<"-", "0", "5", ":", "3", "0">>, <<"-", "0", "5", "3", "0">>,
        <<"+", "0", "0", ":", "0", "0">>, <<"-", "0", "0", ":", "0", "0">>, <<"+", "0", "0", "0", "0">>, <<"+", "0", "0", "2", "3">>, <<"+", "2", "3", ":", "5", "9">>, <<"+", "2", "4", ":", "0", "0">>,
        <<"+", "0", "5", ":", "6", "0">>, <<"+", "0", "5", "3">>}

\* what may follow a time: nothing, a designator, other text
Trails == {<<>>, <<"Z">>, <<"+", "0", "1", ":", "0", "0">>, <<" ", "x">>, <<"x", "y", "z">>}

Piece(k, d, sp, hm, sc, fr, tz, tr) ==
    [kind |-> k, date |-> d, sep |-> sp, hm |-> hm, sec |-> sc, frac |-> fr, tz |-> tz,
     trail |-> tr]

NoPieces == Piece("none", <<>>, <<>>, <<>>, <<>>, <<>>, <<>>, <<>>)

Compose(g) == g.date \o g.sep \o g.hm \o g.sec \o g.frac \o g.tz \o g.trail

\* the fractions every date and time is tried with
SomeFracs == {<<>>, Frac("count", 1), Frac("count", 6), Frac("zero", 6), Frac("low", 6)}

\* every date, time and designator with a few fractions; one date with
\* every fraction
DatetimeInputs ==
    {Piece("datetime", d, sp, hm, <<>>, <<>>, tz, <<>>) :
        d \in Dates, sp \in Seps, hm \in HMs, tz \in Tzs}
    \cup
    {Piece("datetime", d, sp, hm, sc, fr, tz, <<>>) :
        d \in Dates, sp \in Seps, hm \in HMs, sc \in Secs, fr \in SomeFracs, tz \in Tzs}
    \cup
    {Piece("datetime", <<"2", "0", "2", "4", "-", "0", "1", "-", "1", "5">>, <<"T">>, hm, sc, fr, tz, <<>>) :
        hm \in HMs, sc \in Secs, fr \in Fracs,
        tz \in {<<>>, <<"Z">>, <<"+", "0", "5", ":", "3", "0">>, <<"-", "0", "5", "3", "0">>}}

TimeInputs ==
    {Piece("time", <<>>, <<>>, hm, <<>>, <<>>, <<>>, tr) :
        hm \in HMs \cup {<<"2", "4", ":", "0", "0">>, <<"1", "0", "3", "0">>}, tr \in Trails}
    \cup
    {Piece("time", <<>>, <<>>, hm, sc, fr, <<>>, tr) :
        hm \in HMs, sc \in Secs,
        fr \in {<<>>, Frac("count", 1), Frac("count", 6), Frac("count", 7)},
        tr \in Trails}

(***************************************************************************)
(* Calls of the parsers and of isoformat                                   *)
(***************************************************************************)
FromIsoDatetime ==
    /\ isoPc = "input"
    /\ given.kind = "datetime"
    /\ parsed' = from_iso_datetime(isoArg)
    /\ isoPc' = "datetime"
    /\ UNCHANGED <<isoArg, given, formatted>>
    /\ UNCHANGED <<setVars, gvVars, faVars>>

FromIsoTime ==
    /\ isoPc = "input"
    /\ given.kind = "time"
    /\ parsed' = from_iso_time(isoArg)
    /\ isoPc' = "time"
    /\ UNCHANGED <<isoArg, given, formatted>>
    /\ UNCHANGED <<setVars, gvVars, faVars>>

IsoFormat ==
    /\ isoPc = "datetime"
    /\ parsed.exc = "none"
    /\ formatted' = isoformat(parsed)
    /\ isoPc' = "formatted"
    /\ UNCHANGED <<isoArg, given, parsed>>
    /\ UNCHANGED <<setVars, gvVars, faVars>>

(***************************************************************************)
(* get_value(obj, key, default)                                            *)
(***************************************************************************)
\* the longest list
MaxLen == 3

IntKey(n) == [isInt |-> TRUE, n |-> n, s |-> ""]
StrKey(s) == [isInt |-> FALSE, n |-> 0, s |-> s]

Item(n) == [tag |-> "item", n |-> n]
Attr == [tag |-> "attr", n |-> 0]
Default == [tag |-> "default", n |-> 0]
None == [tag |-> "None", n |-> 0]

\* the sentinel
missing == [tag |-> "missing", n |-> 0]

NoMap == [k \in {} |-> None]

\* a list of n items; lists have methods such as append
ListObj(n) == [kind |-> "list", items |-> [i \in 1..n |-> Item(i)], map |-> NoMap,
               attrs |-> {"append"}]

\* a dict with the keys ks; dicts have methods such as keys
DictObj(ks) == [kind |-> "dict", items |-> <<>>, map |-> [k \in ks |-> Item(0)],
                attrs |-> {"keys"}]

\* an object without __getitem__ and with the attributes as
PlainObj(as) == [kind |-> "object", items |-> <<>>, map |-> NoMap, attrs |-> as]

Objs ==
    {ListObj(n) : n \in 0..MaxLen}
    \cup {DictObj(ks) : ks \in SUBSET {StrKey("x"), IntKey(0)}}
    \cup {PlainObj(as) : as \in {{}, {"x"}}}

Keys == {IntKey(n) : n \in (0 - MaxLen - 1)..(MaxLen + 1)}
        \cup {StrKey(s) : s \in {"x", "y", "append"}}

Returned(v) == [exc |-> "none", val |-> v]
Raised(e) == [exc |-> e, val |-> None]

\* hasattr(obj, '__getitem__')
HasGetItem(obj) == obj.kind \in {"list", "dict"}

\* obj[key]
GetItem(obj, k) ==
    IF obj.kind = "list"
    THEN IF ~k.isInt THEN Raised("TypeError")
         ELSE IF k.n >= 0 /\ k.n < Len(obj.items) THEN Returned(obj.items[k.n + 1])
         ELSE IF k.n < 0 /\ k.n >= 0 - Len(obj.items)
              THEN Returned(obj.items[Len(obj.items) + k.n + 1])
         ELSE Raised("IndexError")
    ELSE IF k \in DOMAIN obj.map THEN Returned(obj.map[k])
    ELSE Raised("KeyError")

\* getattr(obj, key, default): the attribute name must be a string
GetAttr(obj, k, default) ==
    IF k.isInt THEN Raised("TypeError")
    ELSE IF k.s \in obj.attrs THEN Returned(Attr)
    ELSE Returned(default)

get_value(obj, k, default) ==
    IF ~HasGetItem(obj) THEN GetAttr(obj, k, default)
    ELSE IF GetItem(obj, k).exc \in {"KeyError", "IndexError", "TypeError", "AttributeError"}
         THEN GetAttr(obj, k, default)
    ELSE GetItem(obj, k)

NotCalled == [exc |-> "unset", val |-> None]

NoArgs == [obj |-> PlainObj({}), key |-> StrKey(""), default |-> None]

GetValue ==
    /\ gvResult.exc = "unset"
    /\ gvResult' = get_value(gvArgs.obj, gvArgs.key, gvArgs.default)
    /\ UNCHANGED gvArgs
    /\ UNCHANGED <<setVars, isoVars, faVars>>

(***************************************************************************)
(* get_func_args(func)                                                     *)
(***************************************************************************)
\* the most parameters, not counting self
MaxParams == 3

\* the deepest nesting of functools.partial
MaxPartials == 2

Names == <<"a", "b", "c", "d">>

ParamLists ==
    {SubSeq(Names, i, j) : i \in 1..Len(Names),
                            j \in 0..Len(Names)} \cap
    UNION {[1..n -> {Names[i] : i \in 1..Len(Names)}] : n \in 0..MaxParams}

\* a callable: kind "function" is def f(*declared); "method" is the bound
\* method of def m(self, ...); "instance" is an object whose class has
\* def __call__(self, ...); partials counts the functools.partial around it
Callable(k, declared, n) == [kind |-> k, declared |-> declared, partials |-> n]

Funcs ==
    {Callable("function", ps, n) : ps \in ParamLists, n \in 0..MaxPartials}
    \cup {Callable(k, <<"self">> \o ps, n) :
            k \in {"method", "instance"}, ps \in ParamLists, n \in 0..MaxPartials}

\* s[1:]
Rest(s) == IF Len(s) = 0 THEN <<>> ELSE Tail(s)

\* list(inspect.signature(f).parameters.keys()) for a function or a bound
\* method: a bound method's signature leaves out the bound first parameter
Signature(k, declared) == IF k = "function" THEN declared ELSE Rest(declared)

RECURSIVE get_func_args(_)
get_func_args(f) ==
    IF f.partials > 0 THEN get_func_args([f EXCEPT !.partials = @ - 1])
    ELSE IF f.kind \in {"function", "method"} THEN Signature(f.kind, f.declared)
    ELSE Rest(Signature("method", f.declared))

NoFunc == Callable("none", <<>>, 0)

NoList == <<"unset">>

GetFuncArgs ==
    /\ func.kind # "none"
    /\ faResult = NoList
    /\ faResult' = get_func_args(func)
    /\ UNCHANGED func
    /\ UNCHANGED <<setVars, isoVars, gvVars>>

(***************************************************************************)
(* Specifications                                                          *)
(***************************************************************************)
InitSet(hs, cs) ==
    /\ heap \in hs
    /\ heap0 = heap
    /\ callers = cs
    /\ pc = [t \in Threads |-> "idle"]
    /\ key = [t \in Threads |-> <<>>]
    /\ val = [t \in Threads |-> IntV(0)]
    /\ parts = [t \in Threads |-> <<>>]
    /\ idx = [t \in Threads |-> 0]
    /\ dct = [t \in Threads |-> DictV(Root)]
    /\ err = [t \in Threads |-> NoErr]

SetIdle == InitSet({<<EmptyDict>>}, {})

IsoIdle ==
    /\ isoArg = <<>>
    /\ given = NoPieces
    /\ parsed = NotParsed
    /\ formatted = <<>>
    /\ isoPc = "off"

GvIdle ==
    /\ gvArgs = NoArgs
    /\ gvResult = Raised("off")

FaIdle ==
    /\ func = NoFunc
    /\ faResult = NoList

Init == InitSet(InitHeaps, {1}) /\ IsoIdle /\ GvIdle /\ FaIdle

InitConc == InitSet(InitHeaps, {1, 2}) /\ IsoIdle /\ GvIdle /\ FaIdle

InitIso ==
    /\ given \in DatetimeInputs \cup TimeInputs
    /\ isoArg = Compose(given)
    /\ parsed = NotParsed
    /\ formatted = <<>>
    /\ isoPc = "input"
    /\ SetIdle /\ GvIdle /\ FaIdle

InitGet ==
    /\ gvArgs \in [obj : Objs, key : Keys, default : {missing, Default}]
    /\ gvResult = NotCalled
    /\ SetIdle /\ IsoIdle /\ FaIdle

InitArgs ==
    /\ func \in Funcs
    /\ faResult = NoList
    /\ SetIdle /\ IsoIdle /\ GvIdle

Next == \E t \in Threads : set_value(t)

NextIso == FromIsoDatetime \/ FromIsoTime \/ IsoFormat

\* set_value with one caller
Spec == Init /\ [][Next]_vars

\* set_value with two callers on the same dictionary, interleaved line by line
SpecConc == InitConc /\ [][Next]_vars

\* the ISO8601 parsers and isoformat
SpecIso == InitIso /\ [][NextIso]_vars

\* get_value
SpecGet == InitGet /\ [][GetValue]_vars

\* get_func_args
SpecArgs == InitArgs /\ [][GetFuncArgs]_vars


(***************************************************************************)
(* Properties of set_value                                                 *)
(***************************************************************************)
NoValue == [kind |-> "absent", v |-> 0]

RECURSIVE Walk(_, _, _)
\* the value reached from v along the segments ps, NoValue when the walk
\* meets a missing key or a value that is not a dictionary
Walk(h, v, ps) ==
    IF Len(ps) = 0 THEN v
    ELSE IF v.kind # "dict" THEN NoValue
    ELSE IF Head(ps) \notin DOMAIN h[v.v] THEN NoValue
    ELSE Walk(h, h[v.v][Head(ps)], Tail(ps))

At(h, ps) == Walk(h, DictV(Root), ps)

Prefix(ps, j) == SubSeq(ps, 1, j)

\* the segments of thread t's key
SegsOf(t) == Split(key[t])

\* the non-final positions of ps where h holds a value that is not a dictionary
Conflicts(h, ps) == {j \in 1..(Len(ps) - 1) : At(h, Prefix(ps, j)).kind = "int"}

FirstConflict(h, ps) == CHOOSE j \in Conflicts(h, ps) : \A k \in Conflicts(h, ps) : j <= k

\* C7: after set_value(d, key, v) returns normally, the walk of d along the
\* segments of key reaches v and every value met before the end is a mapping.
C7_PathHoldsValue ==
    pc[1] = "done" =>
        /\ At(heap, SegsOf(1)) = val[1]
        /\ \A j \in 1..(Len(SegsOf(1)) - 1) : At(heap, Prefix(SegsOf(1), j)).kind = "dict"

\* set_value({}, 'a.b.c', v) has returned and left {'a': {'b': {'c': v}}}
C7_Witness ==
    /\ pc[1] = "done"
    /\ heap0 = <<EmptyDict>>
    /\ key[1] = <<"a", Dot, "b", Dot, "c">>
    /\ heap = <<One(A, DictV(2)), One(B, DictV(3)), One(<<"c">>, val[1])>>

\* C8: set_value raises ValueError exactly when a non-final segment of the path
\* holds a non-mapping before the call; the message names the prefix ending at
\* the first such segment, and that value is still in place afterwards.
C8_ConflictRaises ==
    pc[1] \in {"done", "raised"} =>
        /\ (pc[1] = "raised") <=> (Conflicts(heap0, SegsOf(1)) # {})
        /\ pc[1] = "raised" =>
            LET p == Prefix(SegsOf(1), FirstConflict(heap0, SegsOf(1)))
            IN /\ err[1] = ValueErr(Join(p))
               /\ At(heap, p) = At(heap0, p)
               /\ At(heap, p).kind = "int"

\* set_value({'a': {'b': 1}}, 'a.b.a', v) has raised, naming 'a.b'
C8_Witness ==
    /\ pc[1] = "raised"
    /\ heap0 = <<One(A, DictV(2)), One(B, IntV(1))>>
    /\ key[1] = <<"a", Dot, "b", Dot, "a">>
    /\ err[1] = ValueErr(<<"a", Dot, "b">>)

\* C10: when set_value raises ValueError, the dictionary and every dictionary
\* nested in it are as they were before the call.
C10_RaiseLeavesDictUntouched ==
    (pc[1] = "raised" /\ err[1].exc = "ValueError") => heap = heap0

\* a conflict met at the second segment, after one existing mapping was walked
C10_Witness ==
    /\ pc[1] = "raised"
    /\ err[1].exc = "ValueError"
    /\ idx[1] = 2
    /\ heap = heap0

BothDone == pc[1] = "done" /\ pc[2] = "done"

\* neither key's path is the other's or a beginning of the other's
Disjoint(ps, qs) ==
    /\ ~(Len(ps) <= Len(qs) /\ Prefix(qs, Len(ps)) = ps)
    /\ ~(Len(qs) <= Len(ps) /\ Prefix(ps, Len(qs)) = qs)

\* two dotted keys with the same first segment whose paths do not overlap
SharedLead ==
    /\ HasDot(key[1])
    /\ HasDot(key[2])
    /\ SegsOf(1)[1] = SegsOf(2)[1]
    /\ Disjoint(SegsOf(1), SegsOf(2))

BothWritesHeld ==
    /\ At(heap, SegsOf(1)) = val[1]
    /\ At(heap, SegsOf(2)) = val[2]

\* the positions up to which both paths run through the same dictionaries
Shared(ps, qs) ==
    {j \in 0..(Len(ps) - 1) : j <= Len(qs) - 1 /\ Prefix(ps, j) = Prefix(qs, j)}

\* every dictionary both calls walk through exists before either call starts
SharedPathExists ==
    \A j \in Shared(SegsOf(1), SegsOf(2)) : At(heap0, Prefix(SegsOf(1), j)).kind = "dict"

\* C4 as stated: once two interleaved calls with keys that share a leading
\* segment have both returned, the dictionary holds both values.
C4_NoLostWrite == (BothDone /\ SharedLead) => BothWritesHeld

\* C4 amended: the same, when every dictionary on the part of the path the two
\* keys share exists before either call starts.
C4_NoLostWriteOnExistingPath ==
    (BothDone /\ SharedLead /\ SharedPathExists) => BothWritesHeld

\* both calls went through the existing mapping 'a' and both values are there
C4_Witness ==
    /\ BothDone
    /\ heap0 = <<One(A, DictV(2)), EmptyDict>>
    /\ key[1] = <<"a", Dot, "a">>
    /\ key[2] = <<"a", Dot, "b">>
    /\ SharedPathExists
    /\ BothWritesHeld

(***************************************************************************)
(* Properties of the ISO8601 parsers and isoformat                         *)
(***************************************************************************)
Parsed == isoPc \in {"datetime", "formatted"}

\* the designator forms Z, +HH:MM, +HHMM and +HH (either sign), and none
DesignatorForm(tz) ==
    \/ tz = <<>>
    \/ tz = <<"Z">>
    \/ /\ Len(tz) \in {3, 5, 6}
       /\ tz[1] \in {"+", "-"}
       /\ \A i \in 2..Len(tz) : IsDigit(tz[i]) \/ (Len(tz) = 6 /\ i = 4 /\ tz[i] = ":")

\* sign * (HH*60 + MM) minutes, in seconds; MM is 0 when absent
DesignatorSeconds(tz) ==
    IF tz = <<>> \/ tz = <<"Z">> THEN 0
    ELSE LET hh == ToInt(SubSeq(tz, 2, 3))
             mm == IF Len(tz) = 3 THEN 0 ELSE ToInt(SubSeq(tz, Len(tz) - 1, Len(tz)))
         IN  (IF tz[1] = "-" THEN -1 ELSE 1) * (hh * 60 + mm) * 60

\* what the parser returns for the same string without its designator
WithoutTz == from_iso_datetime(Compose([given EXCEPT !.tz = <<>>]))

\* C1: for every otherwise valid datetime string, Z gives UTC, each offset form
\* gives sign * (HH*60 + MM) minutes, and no designator gives a naive datetime.
C1_TimezoneFromDesignator ==
    (/\ Parsed
     /\ DesignatorForm(given.tz)
     /\ WithoutTz.exc = "none"
     /\ Abs(DesignatorSeconds(given.tz)) < 86400)
    => parsed = [WithoutTz EXCEPT !.aware = (given.tz # <<>>),
                                  !.offset = DesignatorSeconds(given.tz)]

\* what the parser returns for the same string without what follows the time
WithoutTrail == from_iso_time(Compose([given EXCEPT !.trail = <<>>]))

\* C3: from_iso_time fails with ValueError on a valid time followed by
\* further characters.
C3_TimeRejectsTrailing ==
    (isoPc = "time" /\ given.trail # <<>> /\ WithoutTrail.exc = "none")
    => parsed.exc = "ValueError"

\* zero-padded YYYY-MM-DDTHH:MM:SS, six fractional digits, offset +HH:MM or -HH:MM
Canonical(g) ==
    /\ Len(g.date) = 10
    /\ g.sep = <<"T">>
    /\ Len(g.hm) = 5
    /\ Len(g.sec) = 3
    /\ Len(g.frac) = 7
    /\ Len(g.tz) = 6

\* C5 as stated: isoformat(from_iso_datetime(s)) = s for every valid s in
\* canonical form, '.000000' and '+00:00' included.
C5_RoundTrip == (isoPc = "formatted" /\ Canonical(given)) => formatted = isoArg

\* C5 amended: the same for canonical s whose fraction is not '.000000' and
\* whose offset has minutes below 60 and is not '-00:00'.
C5_RoundTripNonzeroFraction ==
    (/\ isoPc = "formatted"
     /\ Canonical(given)
     /\ ToInt(Tail(given.frac)) # 0
     /\ given.tz # <<"-", "0", "0", ":", "0", "0">>
     /\ ToInt(SubSeq(given.tz, 5, 6)) <= 59)
    => formatted = isoArg

\* 2024-01-15T10:30:59.123456-05:30 came back as it was given
C5_Witness ==
    /\ isoPc = "formatted"
    /\ isoArg = <<"2", "0", "2", "4", "-", "0", "1", "-", "1", "5", "T", "1", "0", ":", "3", "0", ":", "5", "9", ".", "1", "2", "3", "4", "5", "6", "-", "0", "5", ":", "3", "0">>
    /\ formatted = isoArg

\* the first six fractional digits, after padding with zeros on the right
FirstSixDigits(fr) == ToInt(SubSeq(LJust(Tail(fr), 6, "0"), 1, 6))

\* what the parser returns for the same string without its fraction
WithoutFrac == from_iso_datetime(Compose([given EXCEPT !.frac = <<>>]))

Truncates ==
    parsed = [WithoutFrac EXCEPT !.microsecond =
                 IF given.frac = <<>> THEN 0 ELSE FirstSixDigits(given.frac)]

Defaults ==
    /\ given.sec = <<>> => (parsed.second = 0 /\ parsed.microsecond = 0)
    /\ given.frac = <<>> => parsed.microsecond = 0

\* C6 as stated: a fraction of any number of digits parses, microsecond being
\* its first six digits after right-padding; without seconds or fraction the
\* fields are 0.
C6_AnyFractionLength ==
    (Parsed /\ WithoutFrac.exc = "none") => (Truncates /\ Defaults)

\* C6 amended: the same for a fraction of 1 to 12 digits; a fraction of 13 or
\* more digits is rejected with ValueError.
C6_FractionUpTo12 ==
    (Parsed /\ WithoutFrac.exc = "none") =>
        IF Len(given.frac) - 1 <= MicroDigits + ExtraDigits
        THEN Truncates /\ Defaults
        ELSE parsed.exc = "ValueError"

\* nine fractional digits 123456789 were cut to 123456
C6_Witness ==
    /\ isoPc = "datetime"
    /\ given.frac = Frac("count", 9)
    /\ parsed.exc = "none"
    /\ parsed.microsecond = 123456

(***************************************************************************)
(* Properties of get_value and get_func_args                               *)
(***************************************************************************)
\* obj[key] exists
ItemExists(obj, k) ==
    \/ obj.kind = "list" /\ k.isInt /\ k.n < Len(obj.items) /\ k.n >= 0 - Len(obj.items)
    \/ obj.kind = "dict" /\ k \in DOMAIN obj.map

\* the attribute obj.key exists
AttrExists(obj, k) == ~k.isInt /\ k.s \in obj.attrs

\* C2: when neither obj[key] nor the attribute obj.key exists, get_value
\* returns default and does not raise, for integer and string keys alike.
C2_MissingGivesDefault ==
    (/\ gvResult.exc \notin {"unset", "off"}
     /\ ~ItemExists(gvArgs.obj, gvArgs.key)
     /\ ~AttrExists(gvArgs.obj, gvArgs.key))
    => gvResult = Returned(gvArgs.default)

\* the parameters a caller supplies: all of them, less the receiver
CallerArgs(f) == IF f.kind = "function" THEN f.declared ELSE Tail(f.declared)

\* C9: get_func_args returns every parameter but the implicit receiver, for
\* functions, bound methods, callable instances and partials of them.
C9_ArgsWithoutReceiver == faResult # NoList => faResult = CallerArgs(func)

====
